---- MODULE Spec2Model ----
(***************************************************************************)
(* Model of include/xtensor/xiterator.hpp: the strided stepper (xstepper), *)
(* the indexed stepper (xindexed_stepper), the odometer increment          *)
(* (increment_stepper), the shape holder (detail::shape_storage) and the   *)
(* iterator adaptor (xiterator).                                           *)
(*                                                                         *)
(* Dimensions are 0-based as in the source; TLA+ sequences are 1-based, so *)
(* the source's v[d] is written v[d + 1].                                  *)
(***************************************************************************)
EXTENDS Integers, Sequences, FiniteSets, TLC

\* ---- bounds of the model ------------------------------------------------
MaxRank == 2        \* largest rank of an iteration shape
MaxExtent == 3      \* largest extent of a dimension
MaxSize == 9        \* largest number of positions of an iteration shape
SizeBits == 8       \* width of size_type in the model (the build has 64)
MaxStep == 2        \* largest n passed to step / step_back by the stepper's driver

Modulus == 2 ^ SizeBits

\* size_type arithmetic is unsigned and wraps
Wrap(x) == x % Modulus

\* ---- shapes -------------------------------------------------------------
Extents == 0 .. MaxExtent

SeqsOf(S, k) == [1 .. k -> S]

RECURSIVE Product(_)
Product(s) == IF Len(s) = 0 THEN 1 ELSE Head(s) * Product(Tail(s))

Shapes == { s \in UNION { SeqsOf(Extents, k) : k \in 0 .. MaxRank } : Product(s) <= MaxSize }

Zeros(k) == [i \in 1 .. k |-> 0]

\* the two stepper classes
Kinds == {"indexed", "strided"}

\* ---- the container / expression (external collaborator) ------------------
\* A container is known to the steppers through shape(), strides(),
\* backstrides(), begin() and end().  heap maps a container's address to its
\* shape; its strides are row-major with stride 0 on a dimension of extent 1.
VARIABLES heap, shapeMem, kind, it, other, n, m, visited, st, st2, pos

vars == <<heap, shapeMem, kind, it, other, n, m, visited, st, st2, pos>>

ContainerIds == {1, 2}

RECURSIVE RawStrides(_)
RawStrides(e) ==
    IF Len(e) = 0 THEN << >>
    ELSE <<Wrap(Product(Tail(e)))>> \o RawStrides(Tail(e))

strides(c) ==
    LET e == heap[c]
        r == RawStrides(e)
    IN  [i \in 1 .. Len(e) |-> IF e[i] = 1 THEN 0 ELSE r[i]]

backstrides(c) ==
    LET e == heap[c]
        s == strides(c)
    IN  [i \in 1 .. Len(e) |-> Wrap(s[i] * Wrap(e[i] - 1))]

container_begin(c) == 0

container_end(c) == Wrap(Product(heap[c]))

\* element(index) of a container that also exposes element access: the
\* storage slot sum_j index[j] * stride[j]
RECURSIVE Dot(_, _)
Dot(a, b) == IF Len(a) = 0 THEN 0 ELSE Head(a) * Head(b) + Dot(Tail(a), Tail(b))

element(c, index) == Wrap(Dot(index, strides(c)))

\* ---- xstepper -------------------------------------------------------------
\* A stepper value: kind selects the class; p is p_c / p_e; m_it is the
\* strided cursor (as a distance from begin()); m_index the indexed
\* stepper's index vector; m_offset the rank-alignment offset.
xstepper(c, cursor, offset) ==
    [kind |-> "strided", p |-> c, m_it |-> cursor, m_index |-> << >>, m_offset |-> offset]

xstepper_deref(s) == s.m_it

\* xstepper::step adding n, not n * stride
xstepper_step_unit(s, dim, k) ==
    IF dim >= s.m_offset THEN [s EXCEPT !.m_it = Wrap(@ + k)] ELSE s

\* xstepper::step guarded by dim > m_offset
xstepper_step_gt(s, dim, k) ==
    IF dim > s.m_offset
    THEN [s EXCEPT !.m_it = Wrap(@ + Wrap(k * strides(s.p)[dim - s.m_offset + 1]))]
    ELSE s

xstepper_step(s, dim, k) ==
    IF dim >= s.m_offset
    THEN [s EXCEPT !.m_it = Wrap(@ + Wrap(k * strides(s.p)[dim - s.m_offset + 1]))]
    ELSE s

xstepper_step_back(s, dim, k) ==
    IF dim >= s.m_offset
    THEN [s EXCEPT !.m_it = Wrap(@ - Wrap(k * strides(s.p)[dim - s.m_offset + 1]))]
    ELSE s

\* xstepper::reset subtracting the stride, not the backstride
xstepper_reset_stride(s, dim) ==
    IF dim >= s.m_offset
    THEN [s EXCEPT !.m_it = Wrap(@ - strides(s.p)[dim - s.m_offset + 1])]
    ELSE s

xstepper_reset(s, dim) ==
    IF dim >= s.m_offset
    THEN [s EXCEPT !.m_it = Wrap(@ - backstrides(s.p)[dim - s.m_offset + 1])]
    ELSE s

xstepper_to_end(s) == [s EXCEPT !.m_it = container_end(s.p)]

\* xstepper::equal not comparing the container
xstepper_equal_cursor(a, b) == a.m_it = b.m_it /\ a.m_offset = b.m_offset

xstepper_equal(a, b) == a.p = b.p /\ a.m_it = b.m_it /\ a.m_offset = b.m_offset

\* ---- xindexed_stepper -----------------------------------------------------
xindexed_stepper_to_end(s) == [s EXCEPT !.m_index = heap[s.p]]

\* constructor sizing the index to the broadcast rank
xindexed_stepper_broadcast_rank(e, offset, end) ==
    LET s == [kind |-> "indexed", p |-> e, m_it |-> 0,
              m_index |-> Zeros(Len(heap[e]) + offset), m_offset |-> offset]
    IN  IF end THEN xindexed_stepper_to_end(s) ELSE s

xindexed_stepper(e, offset, end) ==
    LET s == [kind |-> "indexed", p |-> e, m_it |-> 0,
              m_index |-> Zeros(Len(heap[e])), m_offset |-> offset]
    IN  IF end THEN xindexed_stepper_to_end(s) ELSE s

xindexed_stepper_deref(s) == element(s.p, s.m_index)

xindexed_stepper_step(s, dim, k) ==
    IF dim >= s.m_offset
    THEN [s EXCEPT !.m_index[dim - s.m_offset + 1] = Wrap(@ + k)]
    ELSE s

\* step_back stopping at 0 instead of wrapping
xindexed_stepper_step_back_floor(s, dim, k) ==
    IF dim >= s.m_offset
    THEN [s EXCEPT !.m_index[dim - s.m_offset + 1] = IF @ < k THEN 0 ELSE @ - k]
    ELSE s

xindexed_stepper_step_back(s, dim, k) ==
    IF dim >= s.m_offset
    THEN [s EXCEPT !.m_index[dim - s.m_offset + 1] = Wrap(@ - k)]
    ELSE s

\* reset clearing the offset instead of the index component
xindexed_stepper_reset_offset(s, dim) ==
    IF dim >= s.m_offset
    THEN [s EXCEPT !.m_offset = 0]
    ELSE s

xindexed_stepper_reset(s, dim) ==
    IF dim >= s.m_offset
    THEN [s EXCEPT !.m_index[dim - s.m_offset + 1] = 0]
    ELSE s

xindexed_stepper_equal(a, b) ==
    a.p = b.p /\ a.m_index = b.m_index /\ a.m_offset = b.m_offset

\* ---- the stepper interface the odometer and the adaptor are generic over --
step(s, dim, k) ==
    IF s.kind = "strided" THEN xstepper_step(s, dim, k) ELSE xindexed_stepper_step(s, dim, k)

step_back(s, dim, k) ==
    IF s.kind = "strided" THEN xstepper_step_back(s, dim, k)
    ELSE xindexed_stepper_step_back(s, dim, k)

reset(s, dim) ==
    IF s.kind = "strided" THEN xstepper_reset(s, dim) ELSE xindexed_stepper_reset(s, dim)

to_end(s) ==
    IF s.kind = "strided" THEN xstepper_to_end(s) ELSE xindexed_stepper_to_end(s)

deref(s) ==
    IF s.kind = "strided" THEN xstepper_deref(s) ELSE xindexed_stepper_deref(s)

stepper_eq(a, b) ==
    IF a.kind = "strided" THEN xstepper_equal(a, b) ELSE xindexed_stepper_equal(a, b)

stepper_neq(a, b) == ~ stepper_eq(a, b)

\* ---- increment_stepper ----------------------------------------------------
\* The while loop, entered with the loop variable i; calls records the
\* stepper calls issued, in order.
RECURSIVE increment_loop(_, _, _, _, _)
increment_loop(stepper, index, shape, i, calls) ==
    IF i = 0
    THEN [stepper |-> to_end(stepper), index |-> index,
          calls |-> Append(calls, <<"to_end">>)]
    ELSE LET j == i - 1
             inc == Wrap(index[j + 1] + 1)
             index1 == [index EXCEPT ![j + 1] = inc]
         IN  IF inc # shape[j + 1]
             THEN [stepper |-> step(stepper, j, 1), index |-> index1,
                   calls |-> Append(calls, <<"step", j, 1>>)]
             ELSE IF j # 0
                  THEN increment_loop(reset(stepper, j), [index1 EXCEPT ![j + 1] = 0],
                                      shape, j, Append(calls, <<"reset", j>>))
                  ELSE increment_loop(stepper, index1, shape, j, calls)

\* increment_stepper without index[i] = 0 on a carry
RECURSIVE increment_loop_nozero(_, _, _, _, _)
increment_loop_nozero(stepper, index, shape, i, calls) ==
    IF i = 0
    THEN [stepper |-> to_end(stepper), index |-> index,
          calls |-> Append(calls, <<"to_end">>)]
    ELSE LET j == i - 1
             inc == Wrap(index[j + 1] + 1)
             index1 == [index EXCEPT ![j + 1] = inc]
         IN  IF inc # shape[j + 1]
             THEN [stepper |-> step(stepper, j, 1), index |-> index1,
                   calls |-> Append(calls, <<"step", j, 1>>)]
             ELSE IF j # 0
                  THEN increment_loop_nozero(reset(stepper, j), index1,
                                             shape, j, Append(calls, <<"reset", j>>))
                  ELSE increment_loop_nozero(stepper, index1, shape, j, calls)

increment_stepper_nozero(stepper, index, shape) ==
    increment_loop_nozero(stepper, index, shape, Len(index), << >>)

\* increment_stepper with the carry branch taken at dimension 0 as well
RECURSIVE increment_loop_reset0(_, _, _, _, _)
increment_loop_reset0(stepper, index, shape, i, calls) ==
    IF i = 0
    THEN [stepper |-> to_end(stepper), index |-> index,
          calls |-> Append(calls, <<"to_end">>)]
    ELSE LET j == i - 1
             inc == Wrap(index[j + 1] + 1)
             index1 == [index EXCEPT ![j + 1] = inc]
         IN  IF inc # shape[j + 1]
             THEN [stepper |-> step(stepper, j, 1), index |-> index1,
                   calls |-> Append(calls, <<"step", j, 1>>)]
             ELSE increment_loop_reset0(reset(stepper, j), [index1 EXCEPT ![j + 1] = 0],
                                        shape, j, Append(calls, <<"reset", j>>))

increment_stepper_reset0(stepper, index, shape) ==
    increment_loop_reset0(stepper, index, shape, Len(index), << >>)

increment_stepper(stepper, index, shape) ==
    increment_loop(stepper, index, shape, Len(index), << >>)

\* ---- detail::shape_storage --------------------------------------------------
\* Held by value (m_shape) or by pointer (p_shape, an address of shapeMem).
shape_storage_value(s) == [byref |-> FALSE, m_shape |-> s, p_shape |-> 0]

shape_storage_pointer(p) == [byref |-> TRUE, m_shape |-> << >>, p_shape |-> p]

shape_of(h) == IF h.byref THEN shapeMem[h.p_shape] ELSE h.m_shape

\* ---- xiterator ----------------------------------------------------------------
xiterator(sub, holder) ==
    [m_it |-> sub, m_index |-> Zeros(Len(shape_of(holder))), storage |-> holder]

xiterator_shape(x) == shape_of(x.storage)

xiterator_preinc(x) ==
    LET r == increment_stepper(x.m_it, x.m_index, xiterator_shape(x))
    IN  [x EXCEPT !.m_it = r.stepper, !.m_index = r.index]

\* operator++(int) returning *this after the increment
xiterator_postinc_self(x) == [ret |-> xiterator_preinc(x), self |-> xiterator_preinc(x)]

\* operator++(int): the pair (returned copy, new value of *this)
xiterator_postinc(x) == [ret |-> x, self |-> xiterator_preinc(x)]

xiterator_deref(x) == deref(x.m_it)

\* xiterator::equal not comparing the shapes
xiterator_equal_sub(a, b) == stepper_eq(a.m_it, b.m_it)

\* xiterator::equal comparing the index vectors as well
xiterator_equal_index(a, b) ==
    /\ stepper_eq(a.m_it, b.m_it)
    /\ xiterator_shape(a) = xiterator_shape(b)
    /\ a.m_index = b.m_index

xiterator_equal(a, b) ==
    stepper_eq(a.m_it, b.m_it) /\ xiterator_shape(a) = xiterator_shape(b)

xiterator_neq(a, b) == ~ xiterator_equal(a, b)

\* ---- begin / end of a traversal (the container's xbegin / xend) -------------
Offset(c, shape) == Len(shape) - Len(heap[c])

stepper_begin(k, c, shape) ==
    IF k = "strided" THEN xstepper(c, container_begin(c), Offset(c, shape))
    ELSE xindexed_stepper(c, Offset(c, shape), FALSE)

stepper_end(k, c, shape) ==
    IF k = "strided" THEN xstepper(c, container_end(c), Offset(c, shape))
    ELSE xindexed_stepper(c, Offset(c, shape), TRUE)

xbegin(k, c, holder) == xiterator(stepper_begin(k, c, shape_of(holder)), holder)

xend(k, c, holder) == xiterator(stepper_end(k, c, shape_of(holder)), holder)

\* ---- the traversal scenario ---------------------------------------------------
\* e can be iterated with shape s: the trailing dimensions of s are those of e,
\* a dimension of e of extent 1 being broadcast
Compatible(e, s) ==
    /\ Len(e) <= Len(s)
    /\ \A j \in 1 .. Len(e) : e[j] = s[j + Len(s) - Len(e)] \/ e[j] = 1

Containers(s) == { e \in Shapes : Compatible(e, s) }

\* a second iteration shape for the same container: s with one extent
\* changed by one, or s with a leading dimension of extent 1
AltShapes(e, s) ==
    { a \in Shapes : /\ Len(a) = Len(s)
                     /\ Compatible(e, a)
                     /\ \E i \in 1 .. Len(s) :
                           /\ a[i] - s[i] \in {-1, 1}
                           /\ \A j \in 1 .. Len(s) : j # i => a[j] = s[j] }
    \cup { <<1>> \o s }

TheContainer == 1

HolderAt(addr) ==
    IF it.storage.byref THEN shape_storage_pointer(addr)
    ELSE shape_storage_value(shapeMem[addr])

\* number of positions of a traversal
Positions(x) == Product(xiterator_shape(x))

Init ==
    /\ kind \in Kinds
    /\ \E s \in Shapes : \E e \in Containers(s) : \E a \in AltShapes(e, s) :
          /\ heap = [c \in ContainerIds |-> e]
          /\ shapeMem = <<s, a>>
    /\ \E byref \in BOOLEAN :
          it = xbegin(kind, TheContainer,
                      IF byref THEN shape_storage_pointer(1)
                      ELSE shape_storage_value(shapeMem[1]))
    /\ other = xend(kind, TheContainer, it.storage)
    /\ n = 0
    /\ m = Positions(other)
    /\ visited = <<it>>
    /\ st = it.m_it
    /\ st2 = it.m_it
    /\ pos = [coord |-> << >>, ended |-> FALSE]

\* ++it
PreIncrement ==
    /\ n < Positions(it)
    /\ it' = xiterator_preinc(it)
    /\ n' = n + 1
    /\ visited' = Append(visited, it')
    /\ UNCHANGED <<heap, shapeMem, kind, other, m, st, st2, pos>>

\* other = it++
PostIncrement ==
    /\ n < Positions(it)
    /\ LET r == xiterator_postinc(it)
       IN  /\ other' = r.ret
           /\ it' = r.self
    /\ m' = n
    /\ n' = n + 1
    /\ visited' = Append(visited, it')
    /\ UNCHANGED <<heap, shapeMem, kind, st, st2, pos>>

\* other = it (copy construction)
CopyConstruct ==
    /\ other # it
    /\ other' = it
    /\ m' = n
    /\ UNCHANGED <<heap, shapeMem, kind, it, n, visited, st, st2, pos>>

\* ++other
IncrementOther ==
    /\ m < Positions(other)
    /\ other' = xiterator_preinc(other)
    /\ m' = m + 1
    /\ UNCHANGED <<heap, shapeMem, kind, it, n, visited, st, st2, pos>>

\* other = xbegin(shape) or xend(shape) of the same container, for one of the
\* two shapes
ConstructOther ==
    \E addr \in 1 .. 2 : \E end \in BOOLEAN :
       /\ other' = IF end THEN xend(kind, TheContainer, HolderAt(addr))
                   ELSE xbegin(kind, TheContainer, HolderAt(addr))
       /\ other' # other
       /\ m' = IF end THEN Product(shapeMem[addr]) ELSE 0
       /\ UNCHANGED <<heap, shapeMem, kind, it, n, visited, st, st2, pos>>

Next ==
    \/ PreIncrement
    \/ PostIncrement
    \/ CopyConstruct
    \/ IncrementOther
    \/ ConstructOther

Spec == Init /\ [][Next]_vars

\* ---- a stepper driven directly (as a broadcasting expression drives it) -------
\* pos.coord is the coordinate of st in each of the container's own dimensions,
\* pos.ended whether to_end() was called.
Dims(s) == 0 .. (s.m_offset + Len(heap[s.p]) - 1)

Extent(s, dim) == heap[s.p][dim - s.m_offset + 1]

Coord(dim) == pos.coord[dim - st.m_offset + 1]

AtEnd == pos.ended

StepperInit ==
    /\ kind \in Kinds
    /\ \E e \in Shapes : heap = [c \in ContainerIds |-> e]
    /\ \E o \in 0 .. (MaxRank - Len(heap[TheContainer])) :
          st = IF kind = "strided" THEN xstepper(TheContainer, container_begin(TheContainer), o)
               ELSE xindexed_stepper(TheContainer, o, FALSE)
    /\ \E c \in ContainerIds : \E o \in 0 .. (MaxRank - Len(heap[c])) : \E end \in BOOLEAN :
          st2 = IF kind = "strided"
                THEN xstepper(c, IF end THEN container_end(c) ELSE container_begin(c), o)
                ELSE xindexed_stepper(c, o, end)
    /\ pos = [coord |-> Zeros(Len(heap[TheContainer])), ended |-> FALSE]
    /\ shapeMem = <<heap[TheContainer], heap[TheContainer]>>
    /\ it = xiterator(st, shape_storage_value(heap[TheContainer]))
    /\ other = it
    /\ n = 0
    /\ m = 0
    /\ visited = << >>

\* st.step(dim, k)
StepperStep ==
    \E dim \in Dims(st) : \E k \in 1 .. MaxStep :
       /\ ~ AtEnd
       /\ dim >= st.m_offset => Coord(dim) + k < Extent(st, dim)
       /\ st' = step(st, dim, k)
       /\ pos' = IF dim >= st.m_offset
                 THEN [pos EXCEPT !.coord[dim - st.m_offset + 1] = @ + k] ELSE pos
       /\ UNCHANGED <<heap, shapeMem, kind, it, other, n, m, visited, st2>>

\* st.step_back(dim, k)
StepperStepBack ==
    \E dim \in Dims(st) : \E k \in 1 .. MaxStep :
       /\ ~ AtEnd
       /\ dim >= st.m_offset => Coord(dim) - k >= 0
       /\ st' = step_back(st, dim, k)
       /\ pos' = IF dim >= st.m_offset
                 THEN [pos EXCEPT !.coord[dim - st.m_offset + 1] = @ - k] ELSE pos
       /\ UNCHANGED <<heap, shapeMem, kind, it, other, n, m, visited, st2>>

\* st.reset(dim), called as the odometer calls it: at the last coordinate
StepperReset ==
    \E dim \in Dims(st) :
       /\ ~ AtEnd
       /\ dim >= st.m_offset => Coord(dim) = Extent(st, dim) - 1
       /\ st' = reset(st, dim)
       /\ pos' = IF dim >= st.m_offset
                 THEN [pos EXCEPT !.coord[dim - st.m_offset + 1] = 0] ELSE pos
       /\ UNCHANGED <<heap, shapeMem, kind, it, other, n, m, visited, st2>>

\* st.to_end()
StepperToEnd ==
    /\ ~ AtEnd
    /\ st' = to_end(st)
    /\ pos' = [pos EXCEPT !.ended = TRUE]
    /\ UNCHANGED <<heap, shapeMem, kind, it, other, n, m, visited, st2>>

\* st2 = st (copy)
StepperCopy ==
    /\ st2 # st
    /\ st2' = st
    /\ UNCHANGED <<heap, shapeMem, kind, it, other, n, m, visited, st, pos>>

StepperNext ==
    \/ StepperStep
    \/ StepperStepBack
    \/ StepperReset
    \/ StepperToEnd
    \/ StepperCopy

StepperSpec == StepperInit /\ [][StepperNext]_vars

\* ---- properties of a traversal ---------------------------------------------------
\* the independently end-constructed iterator of x's traversal
EndOf(x) == xend(x.m_it.kind, x.m_it.p, x.storage)

InBounds(index, shape) == \A i \in DOMAIN shape : index[i] < shape[i]

AllIndices(shape) == { v \in SeqsOf(0 .. MaxExtent, Len(shape)) : InBounds(v, shape) }

\* lexicographic order on index vectors of equal length
LexLess(a, b) ==
    \E i \in DOMAIN a : a[i] < b[i] /\ \A j \in 1 .. (i - 1) : a[j] = b[j]

\* the k-th (from 0) index vector of a shape in row-major order
RECURSIVE Unrank(_, _)
Unrank(k, shape) ==
    IF Len(shape) = 0 THEN << >>
    ELSE LET rest == Product(Tail(shape))
         IN  <<k \div rest>> \o Unrank(k % rest, Tail(shape))

\* the states of it at its non-end positions visited so far
Valid ==
    LET N == Positions(it)
    IN  SubSeq(visited, 1, IF Len(visited) < N THEN Len(visited) ELSE N)

\* C1: an iterator started at begin is unequal to the end-constructed iterator at
\* each of its first s0*...*sk-1 positions and equal to it after exactly that
\* many increments.
FullTraversalCount ==
    /\ n < Positions(it) => xiterator_neq(it, EndOf(it))
    /\ n = Positions(it) => xiterator_equal(it, EndOf(it))

\* C2: the index vectors at the successive non-end positions are the row-major
\* (lexicographic) enumeration of the index vectors below the shape, each once.
RowMajorOrder ==
    LET shape == xiterator_shape(it)
        N == Product(shape)
    IN  /\ \A k \in DOMAIN Valid :
             /\ InBounds(Valid[k].m_index, shape)
             /\ Valid[k].m_index = Unrank(k - 1, shape)
        /\ Valid # << >> => Valid[1].m_index = Zeros(Len(shape))
        /\ \A k \in 1 .. (Len(Valid) - 1) : LexLess(Valid[k].m_index, Valid[k + 1].m_index)
        /\ Len(Valid) = N => { Valid[k].m_index : k \in DOMAIN Valid } = AllIndices(shape)
        /\ (shape = <<2, 3>> /\ Len(Valid) = N) =>
              [k \in DOMAIN Valid |-> Valid[k].m_index]
                 = << <<0, 0>>, <<0, 1>>, <<0, 2>>, <<1, 0>>, <<1, 1>>, <<1, 2>> >>

RowMajorOrderWitness ==
    /\ xiterator_shape(it) = <<2, 3>>
    /\ n = 6
    /\ Len(Valid) = 6
    /\ Valid[4].m_index = <<1, 0>>

\* C3: a rank-0 traversal is not at its end at begin and is at its end after one
\* increment.
RankZeroTraversal ==
    Len(xiterator_shape(it)) = 0 =>
       /\ n = 0 => xiterator_neq(it, EndOf(it))
       /\ n = 1 => xiterator_equal(it, EndOf(it))

\* two iterators of the same traversal (same container, same shape, same offset)
SameTraversal(a, b) ==
    /\ a.m_it.p = b.m_it.p
    /\ a.m_it.m_offset = b.m_it.m_offset
    /\ xiterator_shape(a) = xiterator_shape(b)

\* C4: two iterators of the same traversal at the same position are equal, and
\* incrementing exactly one of them, so that their index vectors differ, makes
\* them unequal (both taken at positions before the end).
EqualityIndependence ==
    (SameTraversal(it, other) /\ n < Positions(it) /\ m < Positions(it)) =>
       /\ (m = n /\ it.m_index = other.m_index) => xiterator_equal(it, other)
       /\ ((n = m + 1 \/ m = n + 1) /\ it.m_index # other.m_index) =>
             xiterator_neq(it, other)

\* C5: iterators whose bound shapes differ never compare equal.
DifferentShapesNeverEqual ==
    \A a \in {it, other, EndOf(it), EndOf(other)} :
       \A b \in {it, other, EndOf(it), EndOf(other)} :
          xiterator_shape(a) # xiterator_shape(b) =>
             xiterator_neq(a, b) /\ ~ xiterator_equal(a, b)

DifferentShapesWitness ==
    /\ it.storage.byref
    /\ xiterator_shape(it) # xiterator_shape(other)
    /\ stepper_eq(it.m_it, other.m_it)
    /\ it.m_index = other.m_index
    /\ n > 0

\* C8: over the container of shape [3,3] (strides [3,1], backstrides [6,2]) the
\* strided cursor is 0,1,...,8 at the nine successive positions and the tenth
\* position is the end; over any container iterated with its own shape the
\* cursor advances by exactly 1 at every increment.
StridedScenario ==
    (kind = "strided" /\ heap[TheContainer] = xiterator_shape(it)) =>
       /\ \A k \in 1 .. (Len(visited) - 1) :
             xiterator_deref(visited[k + 1]) = xiterator_deref(visited[k]) + 1
       /\ xiterator_shape(it) = <<3, 3>> =>
             /\ strides(TheContainer) = <<3, 1>>
             /\ backstrides(TheContainer) = <<6, 2>>
             /\ \A k \in DOMAIN Valid : xiterator_deref(Valid[k]) = k - 1
             /\ n < 9 => xiterator_neq(it, EndOf(it))
             /\ n = 9 => xiterator_equal(it, EndOf(it))

StridedScenarioWitness ==
    /\ kind = "strided"
    /\ heap[TheContainer] = <<3, 3>>
    /\ xiterator_shape(it) = <<3, 3>>
    /\ n = 9
    /\ [k \in DOMAIN Valid |-> xiterator_deref(Valid[k])] = <<0, 1, 2, 3, 4, 5, 6, 7, 8>>
    /\ xiterator_equal(it, EndOf(it))

\* C10: other = it++ gives other the state it had before the call and leaves it
\* in the state ++it produces; later increments of one of the two leave the
\* other one (subiterator, index, shape, dereference target) unchanged.
PostIncrementCopy ==
    [][ /\ PostIncrement =>
             /\ other' = it
             /\ it' = xiterator_preinc(it)
             /\ xiterator_shape(other') = xiterator_shape(it)
        /\ PreIncrement =>
             /\ other' = other
             /\ xiterator_deref(other') = xiterator_deref(other)
        /\ IncrementOther =>
             /\ it' = it
             /\ xiterator_deref(it') = xiterator_deref(it) ]_vars

\* it has moved on by two or more increments since other was taken from it
PostIncrementCopyWitness ==
    /\ SameTraversal(it, other)
    /\ m + 2 <= n
    /\ other = visited[m + 1]
    /\ other.m_index # it.m_index
    /\ xiterator_deref(other) # xiterator_deref(it)

\* ---- properties of a stepper driven directly -----------------------------------
\* the same stepper with offset 0
AtOffsetZero(s) == [s EXCEPT !.m_offset = 0]

StepCounts == 0 .. MaxStep

\* the stepper of st's container, kind and offset positioned at coordinates c
StepperAt(c) ==
    IF st.kind = "strided"
    THEN [st EXCEPT !.m_it = Wrap(Dot(c, strides(st.p)))]
    ELSE [st EXCEPT !.m_index = c]

\* the coordinates of st with that of the container's dimension d moved by k
Moved(d, k) == [pos.coord EXCEPT ![d + 1] = Wrap(@ + k)]

\* C6: with offset o > 0, step, step_back and reset on a dimension dim < o leave
\* the stepper unchanged; on a dimension dim >= o they act as the same call on
\* dimension dim - o of the same stepper with offset 0 does.
BroadcastNoOp ==
    st.m_offset > 0 =>
       \A dim \in Dims(st) : \A k \in StepCounts :
          LET o == st.m_offset
              z == AtOffsetZero(st)
          IN  IF dim < o
              THEN /\ step(st, dim, k) = st
                   /\ step_back(st, dim, k) = st
                   /\ reset(st, dim) = st
              ELSE /\ step(st, dim, k).m_offset = o
                   /\ step_back(st, dim, k).m_offset = o
                   /\ reset(st, dim).m_offset = o
                   /\ AtOffsetZero(step(st, dim, k)) = step(z, dim - o, k)
                   /\ AtOffsetZero(step_back(st, dim, k)) = step_back(z, dim - o, k)
                   /\ AtOffsetZero(reset(st, dim)) = reset(z, dim - o)
                   /\ ~ AtEnd =>
                         /\ step(st, dim, k) = StepperAt(Moved(dim - o, k))
                         /\ step_back(st, dim, k) = StepperAt(Moved(dim - o, 0 - k))

\* a stepper with offset 1 that was stepped along a dimension of its container
BroadcastNoOpWitness ==
    /\ st.m_offset = 1
    /\ ~ AtEnd
    /\ \E i \in DOMAIN pos.coord : pos.coord[i] = 2
    /\ step(st, 0, 1) = st
    /\ step_back(st, 1, 1) # st

\* C7: at the last coordinate of a dimension, reset(dim) leaves the stepper where
\* step_back(dim, extent - 1) does: at coordinate 0 of that dimension, every
\* other coordinate unchanged.
ResetCorrectness ==
    ~ AtEnd =>
       /\ st = StepperAt(pos.coord)
       /\ \A dim \in Dims(st) :
             (dim >= st.m_offset /\ Coord(dim) = Extent(st, dim) - 1) =>
                /\ reset(st, dim) = step_back(st, dim, Extent(st, dim) - 1)
                /\ reset(st, dim) = StepperAt([pos.coord EXCEPT ![dim - st.m_offset + 1] = 0])

\* at the last coordinate of a dimension of extent 3, another coordinate not 0
ResetCorrectnessWitness ==
    /\ ~ AtEnd
    /\ Len(pos.coord) = 2
    /\ heap[st.p][2] = 3
    /\ pos.coord = <<1, 2>>
    /\ reset(st, st.m_offset + 1) = StepperAt(<<1, 0>>)
    /\ reset(st, st.m_offset + 1) # st

\* the steppers a driver can hold next to st and st2
EndStepper(s) ==
    IF s.kind = "strided" THEN xstepper(s.p, container_end(s.p), s.m_offset)
    ELSE xindexed_stepper(s.p, s.m_offset, TRUE)

\* C9: two steppers are equal exactly when they have the same container, the same
\* cursor or index vector and the same offset; operator!= negates operator==.
StepperEquality ==
    \A a \in {st, st2, EndStepper(st), EndStepper(st2)} :
       \A b \in {st, st2, EndStepper(st), EndStepper(st2)} :
          /\ stepper_eq(a, b) <=> (a = b)
          /\ stepper_neq(a, b) <=> ~ stepper_eq(a, b)
          /\ a.p # b.p => ~ stepper_eq(a, b)
          /\ a.m_offset # b.m_offset => ~ stepper_eq(a, b)

\* two steppers over different containers at matching cursors, after a step
StepperEqualityWitness ==
    /\ st.p # st2.p
    /\ st.m_it = st2.m_it
    /\ st.m_index = st2.m_index
    /\ st.m_offset = st2.m_offset
    /\ AtEnd
    /\ st # AtOffsetZero(st)

\* C11: the state to_end() gives the indexed stepper (index vector = the
\* expression's shape) is never its state at a non-end position of a traversal.
IndexedSentinelUnambiguous ==
    /\ (kind = "indexed" /\ n < Positions(it)) =>
          it.m_it # xindexed_stepper_to_end(it.m_it)
    /\ (kind = "indexed" /\ m < Positions(other)) =>
          other.m_it # xindexed_stepper_to_end(other.m_it)

\* The dimensions whose coordinate is at its last value together with every
\* dimension after them: the ones an increment carries through.
Carried(index, shape) ==
    {j \in 0 .. Len(shape) - 1 :
        \A d \in j .. Len(shape) - 1 : Wrap(index[d + 1] + 1) = shape[d + 1]}

\* The calls the protocol prescribes for one increment from index.
ProtocolCalls(index, shape) ==
    LET k == Len(shape)
        t == Cardinality(Carried(index, shape))
        lo == IF t = k THEN 1 ELSE k - t
        resets == [x \in 1 .. (k - lo) |-> <<"reset", k - x>>]
    IN  IF t = k THEN Append(resets, <<"to_end">>)
        ELSE Append(resets, <<"step", k - 1 - t, 1>>)

\* The stepper after the given calls, made in order.
RECURSIVE ApplyCalls(_, _)
ApplyCalls(stepper, calls) ==
    IF calls = << >> THEN stepper
    ELSE LET c == Head(calls)
             s == IF c[1] = "reset" THEN reset(stepper, c[2])
                  ELSE IF c[1] = "step" THEN step(stepper, c[2], c[3])
                  ELSE to_end(stepper)
         IN  ApplyCalls(s, Tail(calls))

OdometerCallsOf(x) ==
    LET r == increment_stepper(x.m_it, x.m_index, xiterator_shape(x))
    IN  /\ r.calls = ProtocolCalls(x.m_index, xiterator_shape(x))
        /\ r.stepper = ApplyCalls(x.m_it, r.calls)

\* C12: one increment from a non-end position issues reset(j) for the carried
\* dimensions j = k-1 down to i+1, innermost first, and then exactly one of
\* step(i, 1) or to_end(); reset(0) is never issued and nothing follows the
\* step or the to_end.
OdometerCallProtocol ==
    /\ n < Positions(it) => OdometerCallsOf(it)
    /\ m < Positions(other) => OdometerCallsOf(other)

\* A rank-2 increment that carried out of the inner dimension and stopped at
\* dimension 0.
OdometerCallProtocolWitness ==
    /\ n >= 1
    /\ Len(it.m_index) = 2
    /\ it = xiterator_preinc(visited[n])
    /\ increment_stepper(visited[n].m_it, visited[n].m_index,
                         xiterator_shape(it)).calls
         = << <<"reset", 1>>, <<"step", 0, 1>> >>

\* C13: over a shape whose extents are all >= 1, at every position reached
\* from the zero-initialised begin index by fewer than s0 * ... * sk-1
\* increments, index[i] < shape[i] for every i.
IndexBound ==
    /\ ((\A i \in DOMAIN xiterator_shape(it) : xiterator_shape(it)[i] >= 1)
            /\ n < Product(xiterator_shape(it)))
         => InBounds(it.m_index, xiterator_shape(it))
    /\ ((\A i \in DOMAIN xiterator_shape(other) : xiterator_shape(other)[i] >= 1)
            /\ m < Product(xiterator_shape(other)))
         => InBounds(other.m_index, xiterator_shape(other))

\* The last position of a rank-2 traversal, reached by carrying increments.
IndexBoundWitness ==
    /\ Len(it.m_index) = 2
    /\ xiterator_shape(it)[1] >= 2 /\ xiterator_shape(it)[2] >= 2
    /\ n = Product(xiterator_shape(it)) - 1
    /\ \A i \in 1 .. 2 : it.m_index[i] = xiterator_shape(it)[i] - 1

\* What a stepper is bound to at construction.
StepperBindings(s) == [container |-> s.p, offset |-> s.m_offset]

\* What an iterator is bound to at construction.
Bindings(x) ==
    [stepper |-> StepperBindings(x.m_it), storage |-> x.storage,
     shape |-> xiterator_shape(x)]

\* Each stepper operation applied to s leaves its bindings alone.
StepperKeepsBindings(s) ==
    /\ StepperBindings(to_end(s)) = StepperBindings(s)
    /\ \A dim \in Dims(s) :
          /\ StepperBindings(reset(s, dim)) = StepperBindings(s)
          /\ \A k \in StepCounts :
                /\ StepperBindings(step(s, dim, k)) = StepperBindings(s)
                /\ StepperBindings(step_back(s, dim, k)) = StepperBindings(s)

\* C14: no operation (step, step_back, reset, to_end, pre- and post-increment)
\* changes the stepper's offset, its container or the iterator's bound shape:
\* every iterator still has the bindings it was constructed with.
ImmutableBindings ==
    /\ Bindings(it) = Bindings(visited[1])
    /\ other.storage \in {it.storage, HolderAt(1), HolderAt(2)}
    /\ Bindings(other) = Bindings(xbegin(kind, TheContainer, other.storage))
    /\ StepperKeepsBindings(it.m_it)
    /\ StepperKeepsBindings(other.m_it)
    /\ Bindings(xiterator_preinc(it)) = Bindings(it)
    /\ Bindings(xiterator_postinc(it).self) = Bindings(it)
    /\ Bindings(xiterator_postinc(it).ret) = Bindings(it)

\* A broadcast rank-2 traversal over a referenced shape, after an increment
\* that carried (reset, then step).
ImmutableBindingsWitness ==
    /\ it.m_it.m_offset = 1
    /\ it.storage.byref
    /\ Len(it.m_index) = 2
    /\ it.m_index = <<1, 0>>
    /\ n >= 2
    /\ it.m_it # visited[1].m_it

\* x after k pre-increments
RECURSIVE Advance(_, _)
Advance(x, k) == IF k = 0 THEN x ELSE Advance(xiterator_preinc(x), k - 1)

\* The iterator of stepper kind k over it's container and shape holder, driven
\* by the same n increments as it.
Twin(k) == Advance(xbegin(k, TheContainer, it.storage), n)

\* C15: a strided and an indexed stepper of the same container and offset,
\* driven by the same increments over the same iteration shape, dereference
\* the same element at every non-end position and become equal to their
\* end-constructed counterparts on the same increment.
SteppersSameContract ==
    LET s == Twin("strided")
        x == Twin("indexed")
    IN  /\ s.m_it.m_offset = x.m_it.m_offset
        /\ n < Positions(it) => xiterator_deref(s) = xiterator_deref(x)
        /\ xiterator_equal(s, EndOf(s)) <=> xiterator_equal(x, EndOf(x))

\* Step counts: the small ones and the ones next to 2^w.
WrapCounts == StepCounts \cup {Modulus - k : k \in 1 .. MaxStep}

\* s moved by d elements in dimension dim stays a position of its container's
\* storage, begin to end (always so for an indexed stepper, which holds no
\* cursor, and for a dimension the stepper does not have).
InStorage(s, dim, d) ==
    \/ s.kind = "indexed"
    \/ dim < s.m_offset
    \/ LET c == s.m_it + d * strides(s.p)[dim - s.m_offset + 1]
       IN  container_begin(s.p) <= c /\ c <= container_end(s.p)

RoundTrip(s) ==
    \A dim \in Dims(s) : \A k \in WrapCounts :
       /\ InStorage(s, dim, k) => step_back(step(s, dim, k), dim, k) = s
       /\ InStorage(s, dim, 0 - k) => step(step_back(s, dim, k), dim, k) = s
       /\ dim < s.m_offset => step(s, dim, k) = s /\ step_back(s, dim, k) = s

OwnIndex(x) ==
    SubSeq(x.m_index, x.m_it.m_offset + 1, Len(x.m_index))

\* The precondition of the correspondence: each dimension d >= o of the
\* iteration shape has the container's extent, or the container has stride 0
\* there.
Correspondent(x) ==
    \A j \in DOMAIN heap[x.m_it.p] :
       \/ xiterator_shape(x)[j + x.m_it.m_offset] = heap[x.m_it.p][j]
       \/ strides(x.m_it.p)[j] = 0

CursorAt(x) ==
    Wrap(container_begin(x.m_it.p) + Dot(OwnIndex(x), strides(x.m_it.p)))

\* C17: at every non-end position of a strided traversal the cursor is
\* begin + sum over d >= o of index[d] * stride[d - o]; the dimensions below
\* the offset do not contribute.
CursorIndexCorrespondence ==
    /\ (kind = "strided" /\ n < Positions(it) /\ Correspondent(it))
          => it.m_it.m_it = CursorAt(it)
    /\ (kind = "strided" /\ m < Positions(other) /\ Correspondent(other))
          => other.m_it.m_it = CursorAt(other)

\* A broadcast traversal in its second pass over the container, past the
\* first element.
CursorIndexCorrespondenceWitness ==
    /\ kind = "strided"
    /\ it.m_it.m_offset = 1
    /\ Len(it.m_index) = 2
    /\ n < Positions(it)
    /\ it.m_index[1] = 1 /\ it.m_index[2] = 1
    /\ it.m_it.m_it = 1

\* The index an iterator over shape is left with by the increment whose carry
\* passes dimension 0.
CarriedOutIndex(shape) ==
    [i \in DOMAIN shape |-> IF i = 1 THEN shape[1] ELSE 0]

\* C18: an iterator of rank k >= 1 driven by increments from begin to the end
\* finishes with index[0] = shape[0] and index[i] = 0 for i > 0, the
\* end-constructed iterator has an all-zero index, and the two compare equal
\* all the same.
AdaptorEndState ==
    (Len(it.m_index) >= 1 /\ n >= 1 /\ n = Positions(it)) =>
       /\ it.m_index = CarriedOutIndex(xiterator_shape(it))
       /\ EndOf(it).m_index = Zeros(Len(xiterator_shape(it)))
       /\ xiterator_equal(it, EndOf(it))
       /\ xiterator_equal(EndOf(it), it)

\* A rank-2 traversal at its end: the indices differ, the iterators are equal.
AdaptorEndStateWitness ==
    /\ Len(it.m_index) = 2
    /\ n = Positions(it)
    /\ it.m_index[1] >= 2 /\ it.m_index[2] = 0
    /\ it.m_index # EndOf(it).m_index
    /\ xiterator_equal(it, EndOf(it))

\* The index vector of stepper s (an indexed one) has the rank of its
\* expression.
StepperBuffer(s) == s.kind = "indexed" => Len(s.m_index) = Len(heap[s.p])

\* The index vectors of iterator x have the rank of its shape and, for an
\* indexed stepper, of its expression.
IteratorBuffers(x) ==
    /\ Len(x.m_index) = Len(xiterator_shape(x))
    /\ StepperBuffer(x.m_it)

\* Each stepper operation applied to s leaves the length of its index alone.
StepperKeepsBuffer(s) ==
    /\ StepperBuffer(to_end(s))
    /\ \A dim \in Dims(s) :
          /\ StepperBuffer(reset(s, dim))
          /\ \A k \in StepCounts :
                StepperBuffer(step(s, dim, k)) /\ StepperBuffer(step_back(s, dim, k))

\* C19: after any sequence of increments, step, step_back, reset and to_end
\* the iterator's index vector has the rank of its shape and the indexed
\* stepper's index vector the rank of its own expression (not the broadcast
\* rank).
FixedSizeIndexBuffers ==
    /\ IteratorBuffers(it) /\ IteratorBuffers(other)
    /\ StepperKeepsBuffer(it.m_it) /\ StepperKeepsBuffer(other.m_it)

\* An indexed broadcast traversal at its end, where to_end() has assigned the
\* expression's shape to the stepper's index.
FixedSizeIndexBuffersWitness ==
    /\ kind = "indexed"
    /\ it.m_it.m_offset = 1
    /\ n >= 2 /\ n = Positions(it)
    /\ Len(it.m_index) = 2
    /\ Len(it.m_it.m_index) = 1
    /\ it.m_it.m_index = heap[it.m_it.p]

====
